---------------------------- MODULE Spec2Model ----------------------------
(***************************************************************************)
(* A model of cargo-fel4's build command, src/src/build_cmd.rs:            *)
(* handle_build_cmd and the helpers it calls.  One run of the handler is   *)
(* a walk of pc from "start" to "done"; every fallible call of the handler *)
(* is one action whose outcome (the exit status of an external command,    *)
(* the result of a filesystem call, the content of CMakeCache.txt) is      *)
(* drawn from a small set.                                                 *)
(***************************************************************************)
EXTENDS Integers, Sequences, FiniteSets, TLC

VARIABLES
    pc,                 \* position of the run inside handle_build_cmd
    subcmd,             \* the BuildCmd: [release, tests]
    target,             \* config.fel4_config.target
    properties,         \* config.fel4_config.properties : key -> FlatTomlValue
    prop_order,         \* the order in which properties.iter() yields the keys
    process_env,        \* RUSTFLAGS of the handler's own process
    rustflags_reads,    \* how many times env::var("RUSTFLAGS") was called
    fel4_flags,         \* Vec<SimpleFlag> of lines 41-55
    rustflags_env_var,  \* String of lines 56-58
    fs,                 \* the files and directories the handler touches
    cmds,               \* the external commands run so far, in order
    log,                \* the fallible steps taken so far, in order
    raw_cmake,          \* interesting_raw_flags_from_cmake, once read
    report,             \* what lines 148-157 printed
    current_dir,        \* env::current_dir() as line 189 saw it
    result              \* the value handle_build_cmd returned

vars == <<pc, subcmd, target, properties, prop_order, process_env,
          rustflags_reads, fel4_flags, rustflags_env_var, fs, cmds, log,
          raw_cmake, report, current_dir, result>>

-----------------------------------------------------------------------------
(* Bounds of the model *)

\* at most this many entries in fel4_config.properties
MaxProps == 2
\* at most this many retained entries in CMakeCache.txt
MaxNative == 2

-----------------------------------------------------------------------------
(* Data *)

SupportedTarget == {"X8664Sel4Fel4", "Armv7Sel4Fel4", "Aarch64Sel4Fel4"}

Keys == {"feature_x", "log_level"}

\* FlatTomlValue: a closed variant; a Float is kept in tenths (10 is 1.0)
FlatTomlValue ==
    {[type |-> "Boolean", b |-> bb, s |-> "", n |-> 0] : bb \in BOOLEAN}
    \cup {[type |-> "String", b |-> FALSE, s |-> ss, n |-> 0] : ss \in {"info"}}
    \cup {[type |-> "Integer", b |-> FALSE, s |-> "", n |-> 1]}
    \cup {[type |-> "Float", b |-> FALSE, s |-> "", n |-> 10]}
    \cup {[type |-> "Datetime", b |-> FALSE, s |-> "1979-05-27T07:32:00Z", n |-> 0]}

Boolish(key, bb) == [variant |-> "Boolish", key |-> key, b |-> bb, s |-> ""]
Stringish(key, ss) == [variant |-> "Stringish", key |-> key, b |-> FALSE, s |-> ss]

Digit(d) == CASE d = 0 -> "0" [] d = 1 -> "1" [] d = 2 -> "2" [] d = 3 -> "3"
              [] d = 4 -> "4" [] d = 5 -> "5" [] d = 6 -> "6" [] d = 7 -> "7"
              [] d = 8 -> "8" [] d = 9 -> "9"

\* i64::to_string for the one-digit integers of the model
IntegerToString(i) == Digit(i)

\* f64::to_string: a float with no fractional part prints without one
FloatToString(tenths) ==
    IF tenths % 10 = 0
    THEN Digit(tenths \div 10)
    ELSE Digit(tenths \div 10) \o "." \o Digit(tenths % 10)

\* Mutant: the Boolean arm is missing and booleans are rendered as text
FlagOfProperty_BooleanAsText(k, v) ==
    CASE v.type = "Boolean" -> Stringish(k, IF v.b THEN "true" ELSE "false")
      [] v.type = "String" -> Stringish(k, v.s)
      [] v.type = "Integer" -> Stringish(k, IntegerToString(v.n))
      [] v.type = "Float" -> Stringish(k, FloatToString(v.n))
      [] v.type = "Datetime" -> Stringish(k, v.s)

\* The closure of lines 45-54: one SimpleFlag for one (key, value) pair
FlagOfProperty(k, v) ==
    CASE v.type = "Boolean" -> Boolish(k, v.b)
      [] v.type = "String" -> Stringish(k, v.s)
      [] v.type = "Integer" -> Stringish(k, IntegerToString(v.n))
      [] v.type = "Float" -> Stringish(k, FloatToString(v.n))
      [] v.type = "Datetime" -> Stringish(k, v.s)

\* Lines 41-55: map the closure over properties.iter() and collect
TranslateProperties(props, order) ==
    [i \in 1..Len(order) |-> FlagOfProperty(order[i], props[order[i]])]


\* The distinct elements of a Vec, as into_iter().collect::<HashSet<_>>() keeps
SetOf(seq) == {seq[i] : i \in 1..Len(seq)}

\* truthy_boolean_flags_as_rust_identifiers: the keys of the Boolish flags
\* that are true, in the order of the flags
RECURSIVE truthy_boolean_flags_as_rust_identifiers(_)
truthy_boolean_flags_as_rust_identifiers(flags) ==
    IF flags = <<>> THEN <<>>
    ELSE LET f == Head(flags)
             rest == truthy_boolean_flags_as_rust_identifiers(Tail(flags))
         IN IF f.variant = "Boolish" /\ f.b THEN <<f.key>> \o rest ELSE rest

\* What env::var("RUSTFLAGS") can answer
RustflagsEnv ==
    {[kind |-> "NotPresent", s |-> ""], [kind |-> "NotUnicode", s |-> ""]}
    \cup {[kind |-> "Ok", s |-> ss] : ss \in {"", "-C debuginfo=2"}}

\* Mutant: the features are visited from the last to the first
RECURSIVE PushFeatures_Reversed(_, _)
PushFeatures_Reversed(output, feature_flags) ==
    IF feature_flags = <<>> THEN output
    ELSE PushFeatures_Reversed(
             output \o "--cfg " \o "feature=\"" \o feature_flags[Len(feature_flags)] \o "\" ",
             SubSeq(feature_flags, 1, Len(feature_flags) - 1))

\* Lines 327-330: the tokens appended for the features
RECURSIVE PushFeatures(_, _)
PushFeatures(output, feature_flags) ==
    IF feature_flags = <<>> THEN output
    ELSE PushFeatures(output \o "--cfg " \o "feature=\"" \o Head(feature_flags) \o "\" ",
                      Tail(feature_flags))

\* Mutant: the separating space of lines 324-326 is not pushed
merge_feature_flags_with_rustflags_env_var_NoSeparator(env_var, feature_flags) ==
    PushFeatures(IF env_var.kind = "Ok" THEN env_var.s ELSE "", feature_flags)

\* Lines 318-332
merge_feature_flags_with_rustflags_env_var(env_var, feature_flags) ==
    LET output == IF env_var.kind = "Ok" THEN env_var.s ELSE ""
        spaced == IF output # "" THEN output \o " " ELSE output
    IN PushFeatures(spaced, feature_flags)

-----------------------------------------------------------------------------
(* Paths *)

IsAbsolute(p) == p # <<>> /\ Head(p) = "/"

\* Mutant: join appends its argument even when it is absolute
Join_AlwaysAppends(p, q) == p \o q

\* PathBuf::join: an absolute argument replaces the receiver
Join(p, q) == IF IsAbsolute(q) THEN q ELSE p \o q

root_dir == <<"/", "proj">>
config_artifact_path == <<"artifacts">>
target_specs_path == <<"target_specs">>
cargo_manifest_path == "/proj/Cargo.toml"

full_name(t) ==
    CASE t = "X8664Sel4Fel4" -> "x86_64-sel4-fel4"
      [] t = "Armv7Sel4Fel4" -> "armv7-sel4-fel4"
      [] t = "Aarch64Sel4Fel4" -> "aarch64-sel4-fel4"

profile_name(sc) == IF sc.release THEN "release" ELSE "debug"

\* Lines 22-25
artifact_path(sc) ==
    Join(Join(root_dir, config_artifact_path), <<profile_name(sc)>>)

\* Mutant: the build-profile directory is left out of the cache path
target_build_cache_path_NoProfile(sc, t) ==
    Join(Join(root_dir, <<"target">>), <<full_name(t)>>)

\* Lines 27-31
target_build_cache_path(sc, t) ==
    Join(Join(Join(root_dir, <<"target">>), <<full_name(t)>>), <<profile_name(sc)>>)

\* Lines 35-39
cross_layer_locations(sc) ==
    [fel4_artifact_path |-> Join(root_dir, artifact_path(sc)),
     fel4_manifest_path |-> Join(root_dir, <<"fel4.toml">>),
     rust_target_path |-> Join(root_dir, target_specs_path)]

root_task_path == Join(Join(root_dir, <<"src">>), <<"bin">>)
root_task_rs_path == Join(root_task_path, <<"root-task.rs">>)
sysimg_path(sc) == Join(artifact_path(sc), <<"feL4img">>)
kernel_path(sc) == Join(artifact_path(sc), <<"kernel">>)
root_task_bin_path(sc, t) == Join(target_build_cache_path(sc, t), <<"root-task">>)

-----------------------------------------------------------------------------
(* Commands *)

NewCommand(program) == [program |-> program, args |-> <<>>, env |-> <<>>]
Arg(c, a) == [c EXCEPT !.args = Append(@, a)]
ArgIf(c, cond, a) == IF cond THEN Arg(c, a) ELSE c
Env(c, k, v) ==
    [c EXCEPT !.env = [x \in DOMAIN c.env \cup {k} |-> IF x = k THEN v ELSE c.env[x]]]

\* Mutant: RUST_TARGET_PATH is not set
add_locations_as_env_vars_NoTargetPath(c, locations) ==
    Env(Env(c, "FEL4_MANIFEST_PATH", locations.fel4_manifest_path),
        "FEL4_ARTIFACT_PATH", locations.fel4_artifact_path)

\* Lines 280-288
add_locations_as_env_vars(c, locations) ==
    Env(Env(Env(c, "FEL4_MANIFEST_PATH", locations.fel4_manifest_path),
            "FEL4_ARTIFACT_PATH", locations.fel4_artifact_path),
        "RUST_TARGET_PATH", locations.rust_target_path)

\* Lines 290-315
handle_arm_edge_case(c, t) ==
    CASE t = "Armv7Sel4Fel4" -> Env(c, "CC_armv7-sel4-fel4", <<"arm-linux-gnueabihf-gcc">>)
      [] t = "Aarch64Sel4Fel4" -> Env(c, "CC_aarch64-sel4-fel4", <<"aarch64-linux-gnu-gcc">>)
      [] OTHER -> c

\* Lines 192-216 (the loudness arguments, which no environment variable or
\* later step depends on, are left out of args)
construct_libsel4_build_command(sc, t, locations) ==
    LET c1 == Arg(Arg(Arg(NewCommand("xargo"), "rustc"), "--manifest-path"), cargo_manifest_path)
        c2 == ArgIf(c1, sc.release, "--release")
        c3 == handle_arm_edge_case(c2, t)
        c4 == add_locations_as_env_vars(c3, locations)
    IN Arg(Arg(Arg(Arg(c4, "--target"), full_name(t)), "-p"), "libsel4-sys")

\* Lines 226-250
construct_root_task_build_command(sc, t, locations) ==
    LET c1 == Arg(Arg(Arg(Arg(Arg(NewCommand("xargo"), "rustc"), "--bin"), "root-task"),
                      "--manifest-path"), cargo_manifest_path)
        c2 == ArgIf(c1, sc.release, "--release")
        c3 == handle_arm_edge_case(c2, t)
        c4 == ArgIf(ArgIf(c3, sc.tests, "--features"), sc.tests, "test alloc")
        c5 == Arg(Arg(c4, "--target"), full_name(t))
    IN add_locations_as_env_vars(c5, locations)

-----------------------------------------------------------------------------
(* Reconciliation *)

\* RawFlag: a retained entry of CMakeCache.txt; feature_x is cached as a BOOL
\* or as a STRING, log_level as a STRING
RawFlag ==
    {[key |-> "feature_x", cmake_type |-> "BOOL", value |-> v] : v \in {"ON", "OFF"}}
    \cup {[key |-> k, cmake_type |-> "STRING", value |-> v] : k \in Keys, v \in {"info", "1"}}

\* What cache_to_interesting_flags can return on success
RawFlagSets == {rs \in SUBSET RawFlag : Cardinality(rs) <= MaxNative}

\* SimpleFlag::from(&RawFlag)
SimpleFlagFromRaw(raw) ==
    IF raw.cmake_type = "BOOL"
    THEN Boolish(raw.key, raw.value = "ON")
    ELSE Stringish(raw.key, raw.value)

\* Lines 138-141
simple_cmake_flags(raws) == {SimpleFlagFromRaw(r) : r \in raws}

\* Line 142
simple_fel4_flags(flags) == SetOf(flags)

\* Mutant: flags are matched by key alone
is_subset_KeysOnly(a, b) == \A x \in a : \E y \in b : y.key = x.key

\* Mutant: the receiver and the argument of is_subset are swapped
is_subset_Swapped(a, b) == \A x \in b : x \in a

\* Line 143: HashSet::is_subset
is_subset(a, b) == \A x \in a : x \in b

\* Mutant: only entries of the missing flag's own kind are printed
SameKeyEntries_SameKindOnly(s, raws) ==
    {r \in raws : r.key = s.key /\ (r.cmake_type = "BOOL") = (s.variant = "Boolish")}

\* Lines 152-159: the entries of the cache printed under one missing flag
SameKeyEntries(s, raws) == {r \in raws : r.key = s.key}

\* Lines 144-160: one printed group per flag the cache does not hold
MismatchReport(fel4, cmake, raws) ==
    {[flag |-> s, same_key |-> SameKeyEntries(s, raws)] : s \in {x \in fel4 : x \notin cmake}}

-----------------------------------------------------------------------------
(* The outcome of the fallible calls *)

RunOutcomes == {"exit_zero", "exit_nonzero", "spawn_failed"}

\* CommandExt::run_cmd: Ok only for a command that ran and exited with zero
run_cmd(outcome) ==
    CASE outcome = "exit_zero" -> "Ok"
      [] outcome = "exit_nonzero" -> "ExitStatusError"
      [] outcome = "spawn_failed" -> "IO"

\* impl From<std::io::Error> for Error, used by the ? of lines 90, 111, 125, 128
ErrorFromIo == "IO"

Running == [kind |-> "Running", site |-> "", names |-> {}, path |-> <<>>]
Ok == [kind |-> "Ok", site |-> "", names |-> {}, path |-> <<>>]
Err(kind, site) == [kind |-> kind, site |-> site, names |-> {}, path |-> <<>>]
ErrAt(kind, site, path) == [kind |-> kind, site |-> site, names |-> {}, path |-> path]

\* The directories the process may have been started from
CurrentDirs == {root_dir, <<"/", "link">>, <<"/", "elsewhere">>, <<"/", "gone">>}

\* fs::canonicalize: /link is a symbolic link to the root directory, /gone
\* does not exist (<<>> stands for the io::Error)
canonicalize(p) ==
    CASE p = <<"/", "link">> -> root_dir
      [] p = <<"/", "gone">> -> <<>>
      [] OTHER -> p

\* Mutant: the comparison of the two canonical paths is left out
is_current_dir_root_dir_NoCompare(root, cwd) ==
    IF canonicalize(root) = <<>> \/ canonicalize(cwd) = <<>> THEN "Err" ELSE "Same"

\* Mutant: the test of line 79 has lost its negation
is_current_dir_root_dir_Inverted(root, cwd) ==
    IF canonicalize(root) = <<>> \/ canonicalize(cwd) = <<>> THEN "Err"
    ELSE IF canonicalize(root) = canonicalize(cwd) THEN "Differ" ELSE "Same"

\* Lines 187-190
is_current_dir_root_dir(root, cwd) ==
    IF canonicalize(root) = <<>> \/ canonicalize(cwd) = <<>> THEN "Err"
    ELSE IF canonicalize(root) = canonicalize(cwd) THEN "Same" ELSE "Differ"

\* Mutant: the match sends every target to the default arm
NeedsKernelSupport_Never(t) == FALSE

\* Mutant: the Aarch64Sel4Fel4 arm is missing from the match
NeedsKernelSupport_Armv7Only(t) == t = "Armv7Sel4Fel4"

\* The match of lines 98-130: which arms run the libsel4 build
NeedsKernelSupport(t) == t \in {"Armv7Sel4Fel4", "Aarch64Sel4Fel4"}

-----------------------------------------------------------------------------
(* The initial states: the inputs of one run *)

PropertyMaps ==
    UNION {[ks -> FlatTomlValue] : ks \in {S \in SUBSET Keys : Cardinality(S) <= MaxProps}}

\* The orders in which a map's iterator may yield its keys
IterationOrders(S) ==
    {o \in [1..Cardinality(S) -> S] : \A i, j \in 1..Cardinality(S) : o[i] = o[j] => i = j}

\* The workspace before the run: nothing built yet, or the outputs of an
\* earlier build still in place
Workspaces ==
    {[src_bin_dir |-> old, root_task_rs |-> old, root_task_bin |-> old,
      artifact_dir |-> old, kernel |-> old,
      sysimg |-> IF old THEN "stale" ELSE "absent"] : old \in BOOLEAN}

\* The command lines of the model: a plain debug build, a release test build
BuildCmds == {[release |-> FALSE, tests |-> FALSE], [release |-> TRUE, tests |-> TRUE]}

Init ==
    /\ pc = "start"
    /\ subcmd \in BuildCmds
    /\ target \in SupportedTarget
    /\ properties \in PropertyMaps
    /\ prop_order \in IterationOrders(DOMAIN properties)
    /\ process_env \in RustflagsEnv
    /\ rustflags_reads = 0
    /\ fel4_flags = <<>>
    /\ rustflags_env_var = ""
    /\ fs \in Workspaces
    /\ cmds = <<>>
    /\ log = <<>>
    /\ raw_cmake = {}
    /\ report = {}
    /\ current_dir = <<>>
    /\ result = Running

-----------------------------------------------------------------------------
(* The steps of handle_build_cmd *)

Logged(step, ok) == Append(log, [step |-> step, ok |-> ok])

\* A return of Err(..): the run is over
Abort(step, err) ==
    /\ pc' = "done"
    /\ log' = Logged(step, FALSE)
    /\ result' = err

\* Falling through to the next statement
Continue(step, next) ==
    /\ pc' = next
    /\ log' = Logged(step, TRUE)
    /\ result' = result

\* Lines 19-58: resolve the configuration, translate the flags, merge RUSTFLAGS
Prepare ==
    /\ pc = "start"
    /\ \E resolved \in BOOLEAN :
         IF resolved
         THEN /\ fel4_flags' = TranslateProperties(properties, prop_order)
              /\ rustflags_env_var' =
                     merge_feature_flags_with_rustflags_env_var(
                         process_env,
                         truthy_boolean_flags_as_rust_identifiers(fel4_flags'))
              /\ rustflags_reads' = rustflags_reads + 1
              /\ Continue("Prepare", "create_root_task_dir")
         ELSE /\ Abort("Prepare", Err("Other", "get_resolved_config"))
              /\ UNCHANGED <<fel4_flags, rustflags_env_var, rustflags_reads>>
    /\ UNCHANGED <<subcmd, target, properties, prop_order, process_env, fs, cmds,
                   raw_cmake, report, current_dir>>

\* Lines 62-68
CreateRootTaskDir ==
    /\ pc = "create_root_task_dir"
    /\ \E io_ok \in BOOLEAN :
         IF io_ok
         THEN /\ fs' = [fs EXCEPT !.src_bin_dir = TRUE]
              /\ Continue("CreateRootTaskDir", "create_root_task_file")
         ELSE /\ Abort("CreateRootTaskDir", ErrAt("IO", "create_dir_all", root_task_path))
              /\ fs' = fs
    /\ UNCHANGED <<subcmd, target, properties, prop_order, process_env,
                   rustflags_reads, fel4_flags, rustflags_env_var, cmds,
                   raw_cmake, report, current_dir>>

\* Lines 69-70
CreateRootTaskFile ==
    /\ pc = "create_root_task_file"
    /\ \E io_ok \in BOOLEAN :
         IF io_ok
         THEN /\ fs' = [fs EXCEPT !.root_task_rs = TRUE]
              /\ Continue("CreateRootTaskFile", "generate")
         ELSE /\ Abort("CreateRootTaskFile", Err("IO", "File::create"))
              /\ fs' = fs
    /\ UNCHANGED <<subcmd, target, properties, prop_order, process_env,
                   rustflags_reads, fel4_flags, rustflags_env_var, cmds,
                   raw_cmake, report, current_dir>>

\* Mutant: the Result of generate() is dropped instead of propagated
Generate_ErrorDropped ==
    /\ pc = "generate"
    /\ \E generated \in BOOLEAN :
         /\ pc' = "check_current_dir"
         /\ log' = Logged("Generate", generated)
         /\ result' = result
    /\ UNCHANGED <<subcmd, target, properties, prop_order, process_env,
                   rustflags_reads, fel4_flags, rustflags_env_var, fs, cmds,
                   raw_cmake, report, current_dir>>

\* Lines 71-76
Generate ==
    /\ pc = "generate"
    /\ \E generated \in BOOLEAN :
         IF generated
         THEN Continue("Generate", "check_current_dir")
         ELSE Abort("Generate", Err("Other", "generate"))
    /\ UNCHANGED <<subcmd, target, properties, prop_order, process_env,
                   rustflags_reads, fel4_flags, rustflags_env_var, fs, cmds,
                   raw_cmake, report, current_dir>>

\* Lines 78-82
CheckCurrentDir ==
    /\ pc = "check_current_dir"
    /\ \E cwd \in CurrentDirs :
         /\ current_dir' = cwd
         /\ LET same == is_current_dir_root_dir(root_dir, cwd)
            IN CASE same = "Differ" ->
                      Abort("CheckCurrentDir", Err("ExitStatusError", "is_current_dir_root_dir"))
                 [] same = "Err" ->
                      Abort("CheckCurrentDir", Err("IO", "is_current_dir_root_dir"))
                 [] OTHER -> Continue("CheckCurrentDir", "build_root_task")
    /\ UNCHANGED <<subcmd, target, properties, prop_order, process_env,
                   rustflags_reads, fel4_flags, rustflags_env_var, fs, cmds,
                   raw_cmake, report>>

\* What an external build leaves behind: a command that was spawned may
\* write the root-task binary and, through the seL4 CMake rules, the kernel
Built(outcome, bin, kernel) ==
    IF outcome = "spawn_failed" THEN fs
    ELSE [fs EXCEPT !.root_task_bin = @ \/ bin,
                    !.kernel = @ \/ kernel,
                    !.artifact_dir = @ \/ kernel]

Executed(name, command, outcome) ==
    Append(cmds, [name |-> name, command |-> command, outcome |-> outcome])

\* Mutant: a command that did not succeed is run again
AfterRunCmd_RetriesOnFailure(step, outcome, next) ==
    IF run_cmd(outcome) = "Ok"
    THEN Continue(step, next)
    ELSE /\ pc' = pc
         /\ log' = Logged(step, FALSE)
         /\ result' = result

\* Mutant: the Result of run_cmd is dropped instead of propagated
AfterRunCmd_IgnoresStatus(step, outcome, next) == Continue(step, next)

\* The ? of lines 86, 106 and 120: an Err of run_cmd is returned at once
AfterRunCmd(step, outcome, next) ==
    IF run_cmd(outcome) = "Ok"
    THEN Continue(step, next)
    ELSE Abort(step, Err(run_cmd(outcome), "run_cmd"))

\* Lines 84-86
BuildRootTask ==
    /\ pc = "build_root_task"
    /\ \E outcome \in RunOutcomes, bin \in BOOLEAN, kernel \in BOOLEAN :
         /\ cmds' = Executed("root-task",
                             Env(construct_root_task_build_command(
                                     subcmd, target, cross_layer_locations(subcmd)),
                                 "RUSTFLAGS", rustflags_env_var),
                             outcome)
         /\ fs' = Built(outcome, bin, kernel)
         /\ AfterRunCmd("BuildRootTask", outcome, "create_artifact_dir")
    /\ UNCHANGED <<subcmd, target, properties, prop_order, process_env,
                   rustflags_reads, fel4_flags, rustflags_env_var,
                   raw_cmake, report, current_dir>>

\* Lines 88-90 and the dispatch of line 98
CreateArtifactDir ==
    /\ pc = "create_artifact_dir"
    /\ \E io_ok \in BOOLEAN :
         IF io_ok
         THEN /\ fs' = [fs EXCEPT !.artifact_dir = TRUE]
              /\ Continue("CreateArtifactDir",
                          IF NeedsKernelSupport(target)
                          THEN "build_kernel_support" ELSE "copy_root_task")
         ELSE /\ Abort("CreateArtifactDir", ErrAt(ErrorFromIo, "create_dir_all", artifact_path(subcmd)))
              /\ fs' = fs
    /\ UNCHANGED <<subcmd, target, properties, prop_order, process_env,
                   rustflags_reads, fel4_flags, rustflags_env_var, cmds,
                   raw_cmake, report, current_dir>>

\* Mutant: the .env("RUSTFLAGS", ..) of lines 105 and 119 is missing
kernel_support_command_NoRustflags ==
    Env(construct_libsel4_build_command(subcmd, target, cross_layer_locations(subcmd)),
        "FEL4_ROOT_TASK_IMAGE_PATH",
        Join(target_build_cache_path(subcmd, target), <<"root-task">>))

\* Lines 100-105 and 114-119: the command the two ARM arms build
kernel_support_command ==
    Env(Env(construct_libsel4_build_command(subcmd, target, cross_layer_locations(subcmd)),
            "FEL4_ROOT_TASK_IMAGE_PATH",
            Join(target_build_cache_path(subcmd, target), <<"root-task">>)),
        "RUSTFLAGS", rustflags_env_var)

\* Lines 100-106 and 114-120
BuildKernelSupport ==
    /\ pc = "build_kernel_support"
    /\ \E outcome \in RunOutcomes, kernel \in BOOLEAN :
         /\ cmds' = Executed("libsel4-sys", kernel_support_command, outcome)
         /\ fs' = Built(outcome, FALSE, kernel)
         /\ AfterRunCmd("BuildKernelSupport", outcome, "copy_kernel")
    /\ UNCHANGED <<subcmd, target, properties, prop_order, process_env,
                   rustflags_reads, fel4_flags, rustflags_env_var,
                   raw_cmake, report, current_dir>>

\* Lines 111 and 125: fs::copy(&kernel_path, &sysimg_path)
CopyKernel ==
    /\ pc = "copy_kernel"
    /\ \E io_ok \in BOOLEAN :
         IF fs.kernel /\ io_ok
         THEN /\ fs' = [fs EXCEPT !.sysimg = "copy_of_kernel"]
              /\ Continue("CopyKernel", "reconcile")
         ELSE /\ Abort("CopyKernel", ErrAt(ErrorFromIo, "copy", kernel_path(subcmd)))
              /\ fs' = fs
    /\ UNCHANGED <<subcmd, target, properties, prop_order, process_env,
                   rustflags_reads, fel4_flags, rustflags_env_var, cmds,
                   raw_cmake, report, current_dir>>

\* Line 128: fs::copy(target_build_cache_path.join("root-task"), &sysimg_path)
CopyRootTask ==
    /\ pc = "copy_root_task"
    /\ \E io_ok \in BOOLEAN :
         IF fs.root_task_bin /\ io_ok
         THEN /\ fs' = [fs EXCEPT !.sysimg = "copy_of_root_task"]
              /\ Continue("CopyRootTask", "reconcile")
         ELSE /\ Abort("CopyRootTask",
                       ErrAt(ErrorFromIo, "copy", root_task_bin_path(subcmd, target)))
              /\ fs' = fs
    /\ UNCHANGED <<subcmd, target, properties, prop_order, process_env,
                   rustflags_reads, fel4_flags, rustflags_env_var, cmds,
                   raw_cmake, report, current_dir>>

\* Lines 132-163
Reconcile ==
    /\ pc = "reconcile"
    /\ \E cache_read \in BOOLEAN, raws \in RawFlagSets :
         IF ~cache_read
         THEN /\ raws = {}
              /\ Abort("Reconcile", Err("Other", "cache_to_interesting_flags"))
              /\ UNCHANGED <<raw_cmake, report>>
         ELSE /\ raw_cmake' = raws
              /\ LET cmake == simple_cmake_flags(raws)
                     fel4 == simple_fel4_flags(fel4_flags)
                 IN IF ~is_subset(fel4, cmake)
                    THEN /\ report' = MismatchReport(fel4, cmake, raws)
                         /\ Abort("Reconcile", Err("ConfigError", "reconcile"))
                    ELSE /\ report' = report
                         /\ Continue("Reconcile", "verify_sysimg")
    /\ UNCHANGED <<subcmd, target, properties, prop_order, process_env,
                   rustflags_reads, fel4_flags, rustflags_env_var, fs, cmds,
                   current_dir>>

\* Mutant: the test of line 165 has lost its negation
sysimg_exists_Negated == fs.sysimg = "absent"

\* Line 165: sysimg_path.exists()
sysimg_exists == fs.sysimg # "absent"

\* Mutant: the kernel file is not looked for
kernel_exists_NotChecked == TRUE

\* Line 172: kernel_path.exists()
kernel_exists == fs.kernel

\* Lines 166-169: the error for a missing system image
sysimg_missing_error ==
    ErrAt("ConfigError", "sysimg missing",
          Join(target_build_cache_path(subcmd, target), sysimg_path(subcmd)))

\* Lines 173-176: the error for a missing kernel file
kernel_missing_error ==
    ErrAt("ConfigError", "kernel missing", kernel_path(subcmd))

\* Lines 165-170
VerifySysimg ==
    /\ pc = "verify_sysimg"
    /\ IF ~sysimg_exists
       THEN Abort("VerifySysimg", sysimg_missing_error)
       ELSE Continue("VerifySysimg", "verify_kernel")
    /\ UNCHANGED <<subcmd, target, properties, prop_order, process_env,
                   rustflags_reads, fel4_flags, rustflags_env_var, fs, cmds,
                   raw_cmake, report, current_dir>>

\* Lines 172-184
VerifyKernel ==
    /\ pc = "verify_kernel"
    /\ IF ~kernel_exists
       THEN Abort("VerifyKernel", kernel_missing_error)
       ELSE /\ pc' = "done"
            /\ log' = Logged("VerifyKernel", TRUE)
            /\ result' = Ok
    /\ UNCHANGED <<subcmd, target, properties, prop_order, process_env,
                   rustflags_reads, fel4_flags, rustflags_env_var, fs, cmds,
                   raw_cmake, report, current_dir>>

Next ==
    \/ Prepare
    \/ CreateRootTaskDir
    \/ CreateRootTaskFile
    \/ Generate
    \/ CheckCurrentDir
    \/ BuildRootTask
    \/ CreateArtifactDir
    \/ BuildKernelSupport
    \/ CopyKernel
    \/ CopyRootTask
    \/ Reconcile
    \/ VerifySysimg
    \/ VerifyKernel

Spec == Init /\ [][Next]_vars

\* Lines 19-58 alone: the translation of the properties and the merge with
\* RUSTFLAGS, applied to every input of Init
TranslateSpec == Init /\ [][Prepare]_vars

-----------------------------------------------------------------------------
(* Vocabulary of the claims *)

LoaderBasedTargets == {"Armv7Sel4Fel4", "Aarch64Sel4Fel4"}

StepsOf(l) == [i \in 1..Len(l) |-> l[i].step]

IsPrefix(a, b) == Len(a) <= Len(b) /\ \A i \in 1..Len(a) : a[i] = b[i]

\* The stage of the pipeline each step of the handler belongs to, numbered in
\* the order GenerateEntryPoint, BuildRootTask, BuildKernelSupport,
\* AssembleArtifacts, ReconcileFlags, VerifyArtifacts (0: no stage)
StageOf(step) ==
    CASE step \in {"CreateRootTaskDir", "CreateRootTaskFile", "Generate"} -> 1
      [] step = "BuildRootTask" -> 2
      [] step \in {"BuildKernelSupport", "CopyKernel"} -> 3
      [] step \in {"CreateArtifactDir", "CopyRootTask"} -> 4
      [] step = "Reconcile" -> 5
      [] step \in {"VerifySysimg", "VerifyKernel"} -> 6
      [] OTHER -> 0

\* The steps of a complete run, in the order of the handler's statements
StepOrder(t) ==
    <<"Prepare", "CreateRootTaskDir", "CreateRootTaskFile", "Generate",
      "CheckCurrentDir", "BuildRootTask", "CreateArtifactDir">>
    \o (IF t \in LoaderBasedTargets
        THEN <<"BuildKernelSupport", "CopyKernel">>
        ELSE <<"CopyRootTask">>)
    \o <<"Reconcile", "VerifySysimg", "VerifyKernel">>

-----------------------------------------------------------------------------
(* C1 *)

\* C1 as stated: the stages of a run happen in the order GenerateEntryPoint,
\* BuildRootTask, BuildKernelSupport, AssembleArtifacts, ReconcileFlags,
\* VerifyArtifacts, so no step of a later stage (such as ensuring that the
\* artifact directory exists, the first step of AssembleArtifacts) is taken
\* before a step of an earlier stage.
C1_StagesInSpecOrder ==
    \A i, j \in 1..Len(log) :
        (i < j /\ StageOf(log[i].step) # 0 /\ StageOf(log[j].step) # 0)
            => StageOf(log[i].step) <= StageOf(log[j].step)

\* C1 amended: the steps of a run are taken one at a time in the order
\* GenerateEntryPoint, working-directory check, BuildRootTask, creation of the
\* artifact directory, then BuildKernelSupport and the copy of the kernel
\* (loader-based targets) or the copy of the root-task binary (other
\* targets), ReconcileFlags, VerifyArtifacts; a step is taken only when every
\* earlier step of the run succeeded, none is skipped, and a failed step is
\* the last one.
C1_StepsInCodeOrder ==
    /\ IsPrefix(StepsOf(log), StepOrder(target))
    /\ \A i \in 1..Len(log) : ~log[i].ok => (i = Len(log) /\ pc = "done")
    /\ result.kind = "Ok" => StepsOf(log) = StepOrder(target)
    /\ pc = "done" => (result.kind = "Ok" \/ (log # <<>> /\ ~log[Len(log)].ok))

\* A loader-based run that went through every stage
C1_Witness ==
    /\ target \in LoaderBasedTargets
    /\ result.kind = "Ok"
    /\ Len(log) = 12

-----------------------------------------------------------------------------
(* C2 *)

\* The working directory the check saw is not the root directory
DirsDiffer ==
    /\ current_dir \notin {<<>>, <<"/", "gone">>}
    /\ current_dir \notin {root_dir, <<"/", "link">>}

\* C2: when the working directory differs from the resolved root directory
\* the run ends with an ExitStatusError and no external command (root-task
\* build, kernel-support build) is executed in it.
C2_MismatchAbortsBeforeCommands ==
    DirsDiffer =>
        /\ pc = "done"
        /\ result.kind = "ExitStatusError"
        /\ cmds = <<>>
        /\ log[Len(log)] = [step |-> "CheckCurrentDir", ok |-> FALSE]

\* A run started from another directory has been checked
C2_Witness == current_dir = <<"/", "elsewhere">> /\ pc = "done"

-----------------------------------------------------------------------------
(* C3 *)

NonZero(c) == c.outcome = "exit_nonzero"

\* What the run has on disk is not taken away by a step
Preserved ==
    /\ fs.src_bin_dir => fs'.src_bin_dir
    /\ fs.root_task_rs => fs'.root_task_rs
    /\ fs.root_task_bin => fs'.root_task_bin
    /\ fs.artifact_dir => fs'.artifact_dir
    /\ fs.kernel => fs'.kernel
    /\ fs.sysimg # "absent" => fs'.sysimg = fs.sysimg

\* C3: the step in which an external build command exits with a non-zero
\* status ends the run with an error and removes nothing the earlier steps
\* produced, and no further step (kernel-support build, copy, reconciliation,
\* verification) is taken after it.
C3_NonZeroStatusAborts ==
    [][/\ ~(\E i \in 1..Len(cmds) : NonZero(cmds[i]))
       /\ (Len(cmds') > Len(cmds) /\ NonZero(cmds'[Len(cmds')])) =>
             /\ pc' = "done"
             /\ result'.kind \notin {"Ok", "Running"}
             /\ log' = Append(log, [step |-> log'[Len(log')].step, ok |-> FALSE])
             /\ Preserved]_vars

\* The kernel-support build failed after the entry point was generated, the
\* root task built and the artifact directory created
C3_Witness ==
    /\ Len(cmds) = 2
    /\ NonZero(cmds[2])
    /\ cmds[1].outcome = "exit_zero"
    /\ fs.root_task_rs /\ fs.artifact_dir /\ fs.root_task_bin
    /\ pc = "done"

-----------------------------------------------------------------------------
(* C4 *)

\* The flags the declarative properties stand for
DeclarativeFlags == {FlagOfProperty(k, properties[k]) : k \in DOMAIN properties}

\* The flags the retained cache entries stand for
NativeFlags == {SimpleFlagFromRaw(r) : r \in raw_cmake}

MissingFlags == DeclarativeFlags \ NativeFlags

ReconcileIndex == 1 + Len(StepOrder(target)) - 3

\* The reconciliation step compared the two flag sets
Compared ==
    /\ Len(log) >= ReconcileIndex
    /\ result.site # "cache_to_interesting_flags"

ReportedFlags == {e.flag : e \in report}

\* C4: the reconciliation step succeeds if and only if every declarative flag
\* (key, variant and value) is an element of the flag set derived from the
\* native cache; when it fails, every missing flag is named in the report.
C4_ReconcileIffSubset ==
    Compared =>
        /\ log[ReconcileIndex].ok <=> DeclarativeFlags \subseteq NativeFlags
        /\ ~log[ReconcileIndex].ok => MissingFlags \subseteq ReportedFlags

\* Reconciliation passed against a cache holding more than the declared flags
C4_Witness ==
    /\ Compared
    /\ log[ReconcileIndex].ok
    /\ DeclarativeFlags # {}
    /\ NativeFlags # DeclarativeFlags

-----------------------------------------------------------------------------
(* C5 *)

\* C5 as stated: when a declarative flag is absent from the native cache the
\* run fails with a ConfigError that names that flag.
C5_ConfigErrorNamesFlag ==
    (Compared /\ MissingFlags # {}) =>
        /\ result.kind = "ConfigError"
        /\ MissingFlags \subseteq result.names

\* C5 amended: when a declarative flag is absent from the native cache the
\* run fails with a ConfigError whose message is the same for every mismatch
\* and names no flag; the missing flag is named in the report printed before
\* the error is returned.  This happens although the entry point was
\* generated, every build command exited with zero and the system image was
\* copied; the declared flags are left as they were and the run never
\* returns success.
C5_MismatchIsFatal ==
    (Compared /\ MissingFlags # {}) =>
        /\ pc = "done"
        /\ result.kind = "ConfigError"
        /\ result.site = "reconcile"
        /\ result.names = {}
        /\ MissingFlags \subseteq ReportedFlags
        /\ \A i \in 1..(ReconcileIndex - 1) : log[i].ok
        /\ cmds # <<>> /\ \A i \in 1..Len(cmds) : cmds[i].outcome = "exit_zero"
        /\ fs.root_task_rs
        /\ fs.sysimg \in {"copy_of_kernel", "copy_of_root_task"}
        /\ SetOf(fel4_flags) = DeclarativeFlags

\* feature_x: true is declared and the cache has no such entry
C5_Witness ==
    /\ Compared
    /\ "feature_x" \in DOMAIN properties
    /\ properties["feature_x"].type = "Boolean" /\ properties["feature_x"].b
    /\ Boolish("feature_x", TRUE) \in MissingFlags
    /\ \A r \in raw_cmake : r.key # "feature_x"

-----------------------------------------------------------------------------
(* C6 *)

\* C6: a run returns success only if the working directory matched the root
\* directory, every external command that was executed exited with zero, the
\* declarative flags were a subset of the native cache's flags, and both
\* feL4img and kernel existed when they were verified.
C6_SuccessOnlyWhenAllHeld ==
    result.kind = "Ok" =>
        /\ current_dir \in {root_dir, <<"/", "link">>}
        /\ cmds # <<>> /\ \A i \in 1..Len(cmds) : cmds[i].outcome = "exit_zero"
        /\ Compared /\ DeclarativeFlags \subseteq NativeFlags
        /\ fs.sysimg # "absent"
        /\ fs.kernel

\* A run that returned success with flags to reconcile
C6_Witness == result.kind = "Ok" /\ DeclarativeFlags # {}

-----------------------------------------------------------------------------
(* C7 *)

RanKernelSupport == \E i \in 1..Len(cmds) : cmds[i].name = "libsel4-sys"

\* The run got as far as the dispatch on the target and the step after it
PastDispatch == Len(log) >= 8

\* C7: the kernel-support build command is executed only for the two
\* loader-based targets, and a run that reaches the dispatch on the target
\* executes it exactly for them; the system image a run writes is a copy of
\* the kernel file for the loader-based targets and a copy of the root-task
\* binary for every other target, which runs no second build.
C7_KernelSupportIffLoaderTarget ==
    /\ RanKernelSupport => target \in LoaderBasedTargets
    /\ PastDispatch => (RanKernelSupport <=> target \in LoaderBasedTargets)
    /\ target \notin LoaderBasedTargets =>
          /\ fs.sysimg # "copy_of_kernel"
          /\ \A i \in 1..Len(cmds) : cmds[i].name = "root-task"
          /\ Len(log) >= ReconcileIndex => fs.sysimg = "copy_of_root_task"
    /\ target \in LoaderBasedTargets =>
          /\ fs.sysimg # "copy_of_root_task"
          /\ Len(log) >= ReconcileIndex => fs.sysimg = "copy_of_kernel"

\* An Aarch64 run wrote its system image
C7_Witness == target = "Aarch64Sel4Fel4" /\ fs.sysimg = "copy_of_kernel"

-----------------------------------------------------------------------------
(* C8 *)

\* Where the toolchain puts the root-task binary of a target and profile
BuiltRootTaskBinary ==
    <<"/", "proj", "target", full_name(target),
      IF subcmd.release THEN "release" ELSE "debug", "root-task">>

\* C8: for a loader-based target the kernel-support command is executed only
\* after the root-task build command of the run exited with zero, it carries
\* FEL4_ROOT_TASK_IMAGE_PATH set to the path of the root-task binary in the
\* target build cache, and the kernel file is copied to the system image only
\* after the kernel-support command exited with zero.
C8_KernelSupportAfterRootTask ==
    /\ \A i \in 1..Len(cmds) :
          cmds[i].name = "libsel4-sys" =>
             /\ i = 2
             /\ cmds[1].name = "root-task" /\ cmds[1].outcome = "exit_zero"
             /\ "FEL4_ROOT_TASK_IMAGE_PATH" \in DOMAIN cmds[i].command.env
             /\ cmds[i].command.env["FEL4_ROOT_TASK_IMAGE_PATH"] = BuiltRootTaskBinary
    /\ \A i \in 1..Len(cmds) :
          cmds[i].name = "root-task" =>
             "FEL4_ROOT_TASK_IMAGE_PATH" \notin DOMAIN cmds[i].command.env
    /\ (\E i \in 1..Len(log) : log[i].step = "CopyKernel") =>
          /\ Len(cmds) = 2
          /\ cmds[2].name = "libsel4-sys" /\ cmds[2].outcome = "exit_zero"
    /\ fs.sysimg = "copy_of_kernel" =>
          /\ Len(cmds) = 2
          /\ cmds[2].name = "libsel4-sys" /\ cmds[2].outcome = "exit_zero"

\* A release build for Armv7 copied the kernel to the system image
C8_Witness ==
    /\ target = "Armv7Sel4Fel4"
    /\ subcmd.release
    /\ fs.sysimg = "copy_of_kernel"
    /\ Len(cmds) = 2

-----------------------------------------------------------------------------
(* C9 *)

\* C9: when reconciliation fails, the report lists every declarative flag
\* that is missing from the native flag set and no flag that is in it, and
\* under each missing flag exactly the retained cache entries that have the
\* flag's key, whatever their kind or value.
C9_ReportListsMissingAndSameKey ==
    result.site = "reconcile" =>
        /\ ReportedFlags = MissingFlags
        /\ ReportedFlags \cap NativeFlags = {}
        /\ Cardinality(report) = Cardinality(MissingFlags)
        /\ \A e \in report :
              /\ \A r \in raw_cmake : r.key = e.flag.key => r \in e.same_key
              /\ \A r \in e.same_key : r \in raw_cmake /\ r.key = e.flag.key

\* A missing string flag is reported with a BOOL entry and a STRING entry of
\* another value under the same key
C9_Witness ==
    /\ result.site = "reconcile"
    /\ \E e \in report :
          /\ e.flag.variant = "Stringish"
          /\ Cardinality(e.same_key) = 2
          /\ \E r \in e.same_key : r.cmake_type = "BOOL"

-----------------------------------------------------------------------------
(* C10 *)

\* The text a non-boolean value of the model is written as
TextOf(v) ==
    CASE v.type = "String" -> v.s
      [] v.type = "Datetime" -> v.s
      [] v.type = "Integer" /\ v.n = 1 -> "1"
      [] v.type = "Float" /\ v.n = 10 -> "1"

Translated == Len(log) >= 1 /\ log[1].ok

\* C10: the translation yields exactly one flag per property, under the
\* property's own key: Boolish with the same boolean for a Boolean, Stringish
\* with the value's text for a String, Integer, Float or Datetime; nothing is
\* dropped, and the set of flags is the same whatever the order in which the
\* properties are visited.
C10_OneFlagPerProperty ==
    Translated =>
        /\ Len(fel4_flags) = Cardinality(DOMAIN properties)
        /\ \A k \in DOMAIN properties :
              /\ Cardinality({i \in 1..Len(fel4_flags) : fel4_flags[i].key = k}) = 1
              /\ \E i \in 1..Len(fel4_flags) :
                    /\ fel4_flags[i].key = k
                    /\ IF properties[k].type = "Boolean"
                       THEN /\ fel4_flags[i].variant = "Boolish"
                            /\ fel4_flags[i].b = properties[k].b
                       ELSE /\ fel4_flags[i].variant = "Stringish"
                            /\ fel4_flags[i].s = TextOf(properties[k])
        /\ \A i \in 1..Len(fel4_flags) : fel4_flags[i].key \in DOMAIN properties
        /\ \A o \in IterationOrders(DOMAIN properties) :
              SetOf(TranslateProperties(properties, o)) = SetOf(fel4_flags)

\* A Boolean and a Float were translated, the Float visited first
C10_Witness ==
    /\ Translated
    /\ Len(fel4_flags) = 2
    /\ properties[prop_order[1]].type = "Float"
    /\ properties[prop_order[2]].type = "Boolean"
    /\ fel4_flags[1].s = "1"

-----------------------------------------------------------------------------
(* C11 *)

\* The feature list handed to merge_feature_flags_with_rustflags_env_var
Features == truthy_boolean_flags_as_rust_identifiers(fel4_flags)

\* RUSTFLAGS empty, absent or not valid text
EmptyBaselines ==
    {[kind |-> "NotPresent", s |-> ""], [kind |-> "NotUnicode", s |-> ""],
     [kind |-> "Ok", s |-> ""]}

\* C11: with a non-empty RUSTFLAGS value B the merge returns B, one space,
\* and then exactly what it returns for the same features when RUSTFLAGS is
\* empty, absent or not valid text (three cases that give one and the same
\* string); B is a prefix of the result and is not altered.
C11_BaselineThenSpaceThenFeatures ==
    Translated =>
        /\ \A e \in EmptyBaselines :
              merge_feature_flags_with_rustflags_env_var(e, Features)
                  = PushFeatures("", Features)
        /\ process_env \in EmptyBaselines =>
              rustflags_env_var = PushFeatures("", Features)
        /\ process_env \notin EmptyBaselines =>
              /\ process_env.s = "-C debuginfo=2"
              /\ \A e \in EmptyBaselines :
                    rustflags_env_var =
                        "-C debuginfo=2" \o " "
                            \o merge_feature_flags_with_rustflags_env_var(e, Features)

\* Two features were merged behind a RUSTFLAGS value that was already set
C11_Witness ==
    /\ Translated
    /\ process_env = [kind |-> "Ok", s |-> "-C debuginfo=2"]
    /\ Len(Features) = 2

-----------------------------------------------------------------------------
(* C12 *)

\* One token per Boolish flag that is true, in the order of the flags
RECURSIVE FeatureTokens(_)
FeatureTokens(flags) ==
    IF flags = <<>> THEN ""
    ELSE (IF Head(flags).variant = "Boolish" /\ Head(flags).b
          THEN "--cfg feature=\"" \o Head(flags).key \o "\" "
          ELSE "")
         \o FeatureTokens(Tail(flags))

Baseline ==
    IF process_env.kind = "Ok" /\ process_env.s # "" THEN process_env.s \o " " ELSE ""

\* C12: the RUSTFLAGS value given to the build commands holds, after the
\* pre-existing value, exactly one --cfg feature="<key>" token for every
\* declarative flag that is Boolish and true, in the order of the flags and
\* without repetition; a Boolish false flag or a Stringish flag adds nothing.
C12_TokensAreTruthyKeysInOrder ==
    Translated =>
        /\ rustflags_env_var = Baseline \o FeatureTokens(fel4_flags)
        /\ \A i \in 1..Len(cmds) :
              cmds[i].command.env["RUSTFLAGS"] = Baseline \o FeatureTokens(fel4_flags)
        /\ \A i, j \in 1..Len(Features) : Features[i] = Features[j] => i = j
        /\ \A i \in 1..Len(fel4_flags) :
              (fel4_flags[i].variant = "Stringish" \/ ~fel4_flags[i].b)
                  => \A j \in 1..Len(Features) : Features[j] # fel4_flags[i].key

\* The root-task build ran with two features, log_level before feature_x
C12_Witness ==
    /\ Len(cmds) >= 1
    /\ Features = <<"log_level", "feature_x">>

-----------------------------------------------------------------------------
(* C13 *)

\* Where the two artifacts of a profile are
ResolvedSysimgPath ==
    <<"/", "proj", "artifacts", IF subcmd.release THEN "release" ELSE "debug", "feL4img">>
ResolvedKernelPath ==
    <<"/", "proj", "artifacts", IF subcmd.release THEN "release" ELSE "debug", "kernel">>

\* The verification step has been reached
Verifying == pc \in {"verify_sysimg", "verify_kernel"} \/ Len(log) > ReconcileIndex

-----------------------------------------------------------------------------
(* C14 *)

LocationVariables == {"FEL4_MANIFEST_PATH", "FEL4_ARTIFACT_PATH", "RUST_TARGET_PATH"}

\* C14: every build command of a run carries FEL4_MANIFEST_PATH,
\* FEL4_ARTIFACT_PATH and RUST_TARGET_PATH, set from the locations of the
\* invocation, and the kernel-support command carries the same three values
\* as the root-task command of its run.
C14_SameLocationsInEveryCommand ==
    /\ \A i \in 1..Len(cmds) :
          /\ LocationVariables \subseteq DOMAIN cmds[i].command.env
          /\ cmds[i].command.env["FEL4_MANIFEST_PATH"] = <<"/", "proj", "fel4.toml">>
          /\ cmds[i].command.env["FEL4_ARTIFACT_PATH"] =
                 <<"/", "proj", "artifacts", IF subcmd.release THEN "release" ELSE "debug">>
          /\ cmds[i].command.env["RUST_TARGET_PATH"] = <<"/", "proj", "target_specs">>
    /\ \A i, j \in 1..Len(cmds) : \A v \in LocationVariables :
          cmds[i].command.env[v] = cmds[j].command.env[v]

\* Both commands of a loader-based run were executed
C14_Witness ==
    /\ Len(cmds) = 2
    /\ cmds[1].name = "root-task" /\ cmds[2].name = "libsel4-sys"

-----------------------------------------------------------------------------
(* C15 *)

BuildSteps == {"BuildRootTask", "BuildKernelSupport"}

TimesRun(name) == Cardinality({i \in 1..Len(cmds) : cmds[i].name = name})

\* C15: within one run the root-task build and the kernel-support build are
\* each executed at most once, a command that did not succeed is the last one
\* executed, and no external command is executed after a step has failed.
C15_NoRetries ==
    /\ TimesRun("root-task") <= 1
    /\ TimesRun("libsel4-sys") <= 1
    /\ Len(cmds) = Cardinality({i \in 1..Len(log) : log[i].step \in BuildSteps})
    /\ \A i \in 1..Len(cmds) : cmds[i].outcome # "exit_zero" => i = Len(cmds)
    /\ \A i \in 1..Len(log) :
          ~log[i].ok => \A j \in (i + 1)..Len(log) : log[j].step \notin BuildSteps
    /\ (\E i \in 1..Len(log) : ~log[i].ok) => pc = "done"

\* The kernel-support command could not be started and the run is over
C15_Witness ==
    /\ Len(cmds) = 2
    /\ cmds[2].outcome = "spawn_failed"
    /\ pc = "done"

-----------------------------------------------------------------------------
(* C16 *)

\* C16: RUSTFLAGS is read once, by the step that comes before every stage,
\* and never again; the merged string does not change after that step, every
\* command executed carries it as its RUSTFLAGS, the same in the root-task
\* and the kernel-support command, and the RUSTFLAGS of the handler's own
\* process is what it was before the run.
C16_RustflagsReadOnceAndShared ==
    /\ [](/\ rustflags_reads <= 1
          /\ Translated <=> rustflags_reads = 1
          /\ \A i \in 1..Len(cmds) :
                /\ "RUSTFLAGS" \in DOMAIN cmds[i].command.env
                /\ cmds[i].command.env["RUSTFLAGS"] = rustflags_env_var
          /\ \A i, j \in 1..Len(cmds) :
                cmds[i].command.env["RUSTFLAGS"] = cmds[j].command.env["RUSTFLAGS"])
    /\ [][/\ process_env' = process_env
          /\ rustflags_reads' # rustflags_reads => (log = <<>> /\ cmds = <<>>)
          /\ log # <<>> => rustflags_env_var' = rustflags_env_var]_vars

\* Both commands ran with a RUSTFLAGS value that was already set outside
C16_Witness ==
    /\ Len(cmds) = 2
    /\ process_env = [kind |-> "Ok", s |-> "-C debuginfo=2"]
    /\ rustflags_reads = 1
    /\ cmds[2].command.env["RUSTFLAGS"] = cmds[1].command.env["RUSTFLAGS"]

-----------------------------------------------------------------------------
(* C17 *)

GenerateSteps == {"CreateRootTaskDir", "CreateRootTaskFile", "Generate"}

\* The run ended in a failed step of GenerateEntryPoint
GenerateFailed ==
    /\ log # <<>>
    /\ log[Len(log)].step \in GenerateSteps
    /\ ~log[Len(log)].ok

\* Where a run is before its first build command
BeforeBuild ==
    pc \in {"start", "create_root_task_dir", "create_root_task_file", "generate",
            "check_current_dir"}

\* The step leaves the artifact directory, the artifacts and the build cache alone
ArtifactsUntouched ==
    /\ fs'.artifact_dir = fs.artifact_dir
    /\ fs'.kernel = fs.kernel
    /\ fs'.sysimg = fs.sysimg
    /\ fs'.root_task_bin = fs.root_task_bin

\* C17: a failure while creating src/bin, creating root-task.rs or running
\* the generator ends the run with an error: the working-directory check is
\* not reached, no external build command is executed, and no step of the run
\* has created the artifact directory or an artifact file.
C17_GenerateFailureIsFatal ==
    /\ [](GenerateFailed =>
             /\ pc = "done"
             /\ result.kind \notin {"Ok", "Running"}
             /\ current_dir = <<>>
             /\ \A i \in 1..Len(log) : log[i].step # "CheckCurrentDir"
             /\ cmds = <<>>
             /\ fs.sysimg \in {"absent", "stale"})
    /\ [][/\ ~GenerateFailed
          /\ BeforeBuild => ArtifactsUntouched]_vars

\* The generator failed in a workspace that was never built
C17_Witness ==
    /\ GenerateFailed
    /\ log[Len(log)].step = "Generate"
    /\ fs.root_task_rs
    /\ ~fs.artifact_dir

-----------------------------------------------------------------------------
(* C18 *)

\* C18: a run that ends on the working-directory mismatch has generated
\* src/bin/root-task.rs before the check, and that file and its directory
\* are all its steps changed on disk: the artifact directory is not created
\* and nothing is copied.
C18_MismatchLeavesOnlyEntryPoint ==
    /\ [](DirsDiffer =>
             /\ pc = "done"
             /\ Len(log) = 5
             /\ \A i \in 1..4 : log[i].ok
             /\ log[3].step = "CreateRootTaskFile" /\ log[4].step = "Generate"
             /\ log[5].step = "CheckCurrentDir"
             /\ fs.src_bin_dir /\ fs.root_task_rs
             /\ cmds = <<>>
             /\ fs.sysimg \in {"absent", "stale"})
    /\ [][/\ DirsDiffer => fs' = fs
          /\ BeforeBuild =>
                /\ ArtifactsUntouched
                /\ pc = "create_root_task_dir" \/ fs'.src_bin_dir = fs.src_bin_dir
                /\ pc = "create_root_task_file" \/ fs'.root_task_rs = fs.root_task_rs]_vars

\* A first build started from another directory: only the entry point exists
C18_Witness ==
    /\ DirsDiffer
    /\ fs.root_task_rs
    /\ ~fs.artifact_dir /\ ~fs.kernel /\ ~fs.root_task_bin /\ fs.sysimg = "absent"

-----------------------------------------------------------------------------
(* C19 *)

CopyStep == IF target \in LoaderBasedTargets THEN "CopyKernel" ELSE "CopyRootTask"

CopiedImage ==
    IF target \in LoaderBasedTargets THEN "copy_of_kernel" ELSE "copy_of_root_task"

\* C19: a run that reaches the verification step has written the system
\* image by a successful copy of its own (of the kernel file for a
\* loader-based target, of the root-task binary otherwise), so the
\* missing-system-image error does not occur; the missing-kernel error occurs
\* only for a target that is not loader-based, since for a loader-based
\* target a missing kernel file makes the copy fail, before reconciliation.
C19_ImageWrittenBeforeVerification ==
    /\ Verifying =>
          /\ log[ReconcileIndex - 1] = [step |-> CopyStep, ok |-> TRUE]
          /\ fs.sysimg = CopiedImage
    /\ result.site # "sysimg missing"
    /\ result.site = "kernel missing" => target \notin LoaderBasedTargets
    /\ (target \in LoaderBasedTargets /\ Len(log) >= ReconcileIndex) => fs.kernel
    /\ (Len(log) = ReconcileIndex - 1 /\ log[Len(log)].step = "CopyKernel" /\ ~fs.kernel) =>
          /\ pc = "done"
          /\ result.site = "copy"
          /\ ~log[Len(log)].ok

\* The kernel-support build exited with zero but left no kernel file, and
\* the copy failed
C19_Witness ==
    /\ target \in LoaderBasedTargets
    /\ Len(cmds) = 2 /\ cmds[2].outcome = "exit_zero"
    /\ ~fs.kernel
    /\ result.site = "copy"

=============================================================================
